---- MODULE Spec2Model ----
(***************************************************************************)
(* Model of the supercapacitors package as seen at its boundary: the two   *)
(* entry-point groups declared in pyproject.toml ("parameter_sets" and     *)
(* "models"), and the session of examples/supercapacitor.ipynb that looks  *)
(* a model and a parameter set up by name, pairs them in a Simulation and  *)
(* solves the pairing.  The notebook's names are generalised to inputs     *)
(* drawn from ModelNames and ParameterSetNames.                            *)
(***************************************************************************)
EXTENDS Naturals, Sequences, FiniteSets

VARIABLES
  entry_points,       \* the installed entry-point groups (name -> target)
  imported,           \* cell 1 has run: pybamm and supercapacitors are bound
  model,              \* the notebook's variable `model`
  parameter_values,   \* the notebook's variable `parameter_values`
  sim,                \* the notebook's variable `sim`
  solution,           \* sim.solution
  pc,                 \* position inside cell 4 ("idle" between cells)
  last,               \* the operation executed last and its outcome
  execution_count     \* the kernel's execution counter

vars == <<entry_points, imported, model, parameter_values, sim, solution,
          pc, last, execution_count>>

\* Number of cell executions explored in one session.
MaxExecutions == 6

None == [kind |-> "None"]

\* An entry-point target "supercapacitors.<package>.input.<module>:<attr>".
Target(package, module, attr) ==
  [package |-> package, module |-> module, attr |-> attr]

\* The parameter_sets group with a set of the project template left registered.
parameter_sets_leftover ==
  [Chen2020      |-> Target("parameters", "Chen2020", "get_parameter_values"),
   Verbrugge2005 |-> Target("parameters", "Verbrugge2005", "get_parameter_values"),
   Iamrod2024    |-> Target("parameters", "Iamrod2024", "get_parameter_values"),
   Marquis2019   |-> Target("parameters", "Marquis2019", "get_parameter_values")]

\* [project.entry-points."parameter_sets"]
parameter_sets ==
  [Chen2020      |-> Target("parameters", "Chen2020", "get_parameter_values"),
   Verbrugge2005 |-> Target("parameters", "Verbrugge2005", "get_parameter_values"),
   Iamrod2024    |-> Target("parameters", "Iamrod2024", "get_parameter_values")]

\* The models group with the VerbruggeLiu line left out.
models_missing ==
  [SPM            |-> Target("models", "SPM", "SPM"),
   BasicReservoir |-> Target("models", "BasicReservoir", "BasicReservoir")]

\* [project.entry-points."models"]
models ==
  [SPM            |-> Target("models", "SPM", "SPM"),
   BasicReservoir |-> Target("models", "BasicReservoir", "BasicReservoir"),
   VerbruggeLiu   |-> Target("models", "VerbruggeLiu", "VerbruggeLiu")]

\* The two groups with BasicReservoir registered under the target of SPM.
EntryPoints_copied ==
  [parameter_sets |-> parameter_sets,
   models |-> [models EXCEPT !.BasicReservoir = models.SPM]]

\* The two groups as installed from pyproject.toml.
EntryPoints == [parameter_sets |-> parameter_sets, models |-> models]

Groups == {"parameter_sets", "models"}

\* Names a caller may ask for: the registered ones, a name of the other
\* group, and a name registered nowhere.
ModelNames == {"SPM", "BasicReservoir", "VerbruggeLiu", "Chen2020", "DFN"}
ParameterSetNames == {"Chen2020", "Verbrugge2005", "Iamrod2024", "SPM", "Marquis2019"}
Names == ModelNames \cup ParameterSetNames

\* The experiment of the example.
experiment == <<"Charge at 100 A until 2.2 V", "Hold at 1.4 V for 10 seconds">>

\* Loading a target: a module of supercapacitors.models yields a symbolic
\* model object, get_parameter_values of supercapacitors.parameters yields a
\* key-value table.
Load(target) ==
  [kind   |-> IF target.package = "models" THEN "model" ELSE "table",
   target |-> target]

\* A lookup that rejects a name whose counterpart in the session does not
\* carry the same author prefix (a compatibility check at lookup).
Lookup_checked(group, name) ==
  LET other == IF group = "models" THEN parameter_values ELSE model
      prefix(n) == IF n \in {"VerbruggeLiu", "Verbrugge2005"} THEN "Verbrugge" ELSE n
  IN IF name \in DOMAIN entry_points[group]
        /\ (other = None \/ prefix(other.target.module) = prefix(name))
       THEN [outcome |-> "ok", value |-> Load(entry_points[group][name])]
       ELSE [outcome |-> "lookup_error", value |-> None]

\* Lookup by string name in one entry-point group.
Lookup(group, name) ==
  IF name \in DOMAIN entry_points[group]
    THEN [outcome |-> "ok", value |-> Load(entry_points[group][name])]
    ELSE [outcome |-> "lookup_error", value |-> None]

\* A lookup that consumes the entry it loads.
AfterLookup_evict(group, name) ==
  IF name \in DOMAIN entry_points[group]
    THEN [entry_points EXCEPT ![group] =
            [n \in (DOMAIN entry_points[group]) \ {name} |-> entry_points[group][n]]]
    ELSE entry_points

\* The entry-point groups after a lookup: discovery only reads them.
AfterLookup(group, name) == entry_points

\* supercapacitors.Model(name)
Model(name) == Lookup("models", name)

\* supercapacitors.parameter_sets[name]
ParameterSet(name) == Lookup("parameter_sets", name)

\* A Simulation constructed without the parameter_values argument.
Simulation_unpaired(m, p, e) == [model |-> m, parameter_values |-> None, experiment |-> e]

\* pybamm.Simulation(model, parameter_values=..., experiment=...): the pairing.
Simulation(m, p, e) == [model |-> m, parameter_values |-> p, experiment |-> e]

\* Outcomes of sim.solve for a pairing.  The notebook records a Solution for
\* VerbruggeLiu with Verbrugge2005; for any other pairing an equation or
\* parameter error may surface in the host, at model build or at solve.
SolveOutcomes(s) ==
  IF s.model.target.module = "VerbruggeLiu"
     /\ s.parameter_values.target.module = "Verbrugge2005"
    THEN {"ok"}
    ELSE {"ok", "build_failure", "solve_failure"}

Op(op, name, outcome) == [op |-> op, name |-> name, outcome |-> outcome]

Init ==
  /\ entry_points = EntryPoints
  /\ imported = FALSE
  /\ model = None
  /\ parameter_values = None
  /\ sim = None
  /\ solution = None
  /\ pc = "idle"
  /\ last = Op("none", "", "ok")
  /\ execution_count = 0

\* Cell 1: import pybamm, import supercapacitors.
Import ==
  /\ pc = "idle"
  /\ execution_count < MaxExecutions
  /\ imported' = TRUE
  /\ last' = Op("import", "", "ok")
  /\ execution_count' = execution_count + 1
  /\ UNCHANGED <<entry_points, model, parameter_values, sim, solution, pc>>

\* Cell 2: model = supercapacitors.Model(name)
CellModel(name) ==
  /\ pc = "idle"
  /\ imported
  /\ execution_count < MaxExecutions
  /\ LET r == Model(name) IN
       /\ model' = IF r.outcome = "ok" THEN r.value ELSE model
       /\ last' = Op("Model", name, r.outcome)
  /\ entry_points' = AfterLookup("models", name)
  /\ execution_count' = execution_count + 1
  /\ UNCHANGED <<imported, parameter_values, sim, solution, pc>>

\* Cell 3: parameter_values = pybamm.ParameterValues(supercapacitors.parameter_sets[name])
CellParameterValues(name) ==
  /\ pc = "idle"
  /\ imported
  /\ execution_count < MaxExecutions
  /\ LET r == ParameterSet(name) IN
       /\ parameter_values' = IF r.outcome = "ok" THEN r.value ELSE parameter_values
       /\ last' = Op("parameter_sets", name, r.outcome)
  /\ entry_points' = AfterLookup("parameter_sets", name)
  /\ execution_count' = execution_count + 1
  /\ UNCHANGED <<imported, model, sim, solution, pc>>

\* Cell 4, first statements: the experiment and the Simulation are constructed.
CellSimulation ==
  /\ pc = "idle"
  /\ imported
  /\ model # None
  /\ parameter_values # None
  /\ execution_count < MaxExecutions
  /\ sim' = Simulation(model, parameter_values, experiment)
  /\ solution' = None
  /\ pc' = "solve"
  /\ last' = Op("Simulation", "", "ok")
  /\ execution_count' = execution_count + 1
  /\ UNCHANGED <<entry_points, imported, model, parameter_values>>

\* Cell 4, last statement: sim.solve(calc_esoh=False)
CellSolve ==
  /\ pc = "solve"
  /\ \E outcome \in SolveOutcomes(sim) :
       /\ solution' = IF outcome = "ok"
                        THEN [kind |-> "Solution",
                              model |-> sim.model,
                              parameter_values |-> sim.parameter_values,
                              steps |-> Len(sim.experiment)]
                        ELSE None
       /\ last' = Op("solve", "", outcome)
  /\ pc' = "idle"
  /\ UNCHANGED <<entry_points, imported, model, parameter_values, sim,
                 execution_count>>

\* Cell 5: sim.plot()
CellPlot ==
  /\ pc = "idle"
  /\ sim # None
  /\ solution # None
  /\ execution_count < MaxExecutions
  /\ last' = Op("plot", "", "ok")
  /\ execution_count' = execution_count + 1
  /\ UNCHANGED <<entry_points, imported, model, parameter_values, sim,
                 solution, pc>>

Next ==
  \/ Import
  \/ \E name \in ModelNames : CellModel(name)
  \/ \E name \in ParameterSetNames : CellParameterValues(name)
  \/ CellSimulation
  \/ CellSolve
  \/ CellPlot

Spec == Init /\ [][Next]_vars

(***************************************************************************)
(* Properties                                                              *)
(***************************************************************************)

RegisteredModels == {"SPM", "BasicReservoir", "VerbruggeLiu"}
RegisteredParameterSets == {"Chen2020", "Verbrugge2005", "Iamrod2024"}

\* C2: lookup by name resolves every registered name: each of the three
\* model names yields a model object and each of the three parameter set
\* names yields a key-value table, the registered sets are exactly these
\* three and three, and a lookup of a registered name executed in the session
\* binds the object registered under that name.
C2_LookupResolves ==
  /\ DOMAIN entry_points["models"] = RegisteredModels
  /\ DOMAIN entry_points["parameter_sets"] = RegisteredParameterSets
  /\ \A n \in RegisteredModels :
       /\ Model(n).outcome = "ok"
       /\ Model(n).value.kind = "model"
  /\ \A n \in RegisteredParameterSets :
       /\ ParameterSet(n).outcome = "ok"
       /\ ParameterSet(n).value.kind = "table"
  /\ (last.op = "Model" /\ last.name \in RegisteredModels) =>
       /\ last.outcome = "ok"
       /\ model = Load(models[last.name])
  /\ (last.op = "parameter_sets" /\ last.name \in RegisteredParameterSets) =>
       /\ last.outcome = "ok"
       /\ parameter_values = Load(parameter_sets[last.name])

\* Both lookups of the example have been executed and have bound their objects.
C2_Witness ==
  /\ last.op = "parameter_sets"
  /\ last.name = "Verbrugge2005"
  /\ parameter_values.kind = "table"
  /\ model # None
  /\ model.target.module = "VerbruggeLiu"

Paired ==
  /\ sim # None
  /\ sim.model.kind = "model"
  /\ sim.parameter_values.kind = "table"

\* C4: a model is solved only when paired with a parameter set: whenever a
\* solve is about to run, has just run or has left a solution, the Simulation
\* pairs a model with a parameter table, and a solution is the solution of
\* that pairing.
C4_SolveOnlyPaired ==
  (pc = "solve" \/ last.op = "solve" \/ solution # None) =>
    /\ Paired
    /\ solution # None =>
         /\ solution.model = sim.model
         /\ solution.parameter_values = sim.parameter_values

\* The example's pairing has been solved.
C4_Witness ==
  /\ last.op = "solve"
  /\ solution # None
  /\ solution.model.target.module = "VerbruggeLiu"
  /\ solution.parameter_values.target.module = "Verbrugge2005"

C8_SeparateGroups ==
  /\ DOMAIN entry_points["models"] \cap DOMAIN entry_points["parameter_sets"] = {}
  /\ \A n \in Names :
       /\ Model(n).outcome = "ok" => Model(n).value.kind = "model"
       /\ ParameterSet(n).outcome = "ok" => ParameterSet(n).value.kind = "table"
  /\ \A n \in DOMAIN entry_points["models"] : ParameterSet(n).outcome = "lookup_error"
  /\ \A n \in DOMAIN entry_points["parameter_sets"] : Model(n).outcome = "lookup_error"
  /\ \A g \in Groups : \A a, b \in DOMAIN entry_points[g] :
       a # b => entry_points[g][a] # entry_points[g][b]
  /\ model # None => model.kind = "model"
  /\ parameter_values # None => parameter_values.kind = "table"

\* A model name has been asked for among the parameter sets and not found,
\* while a model is bound in the session.
C8_Witness ==
  /\ last.op = "parameter_sets"
  /\ last.name = "SPM"
  /\ last.outcome = "lookup_error"
  /\ model # None
  /\ model.kind = "model"

====
